---- MODULE Spec2Model ----
(***************************************************************************)
(* find-large: the class-based scanners (FileScanner, VideoScanner,        *)
(* DirectoryScanner over SizeScannerBase) walking a directory tree.         *)
(*                                                                         *)
(* A path is a Python str, modelled as a sequence of one-character         *)
(* strings, so that basename, dirname, join, abspath, str.startswith and    *)
(* str.count are computed character by character as posixpath and str do.  *)
(***************************************************************************)
EXTENDS Integers, Sequences, FiniteSets, TLC

(***************************************************************************)
(* str and posixpath                                                        *)
(***************************************************************************)
sep == "/"

\* s[i:] and s[:i] with 0-based Python slice indices
SliceFrom(s, i) == SubSeq(s, i + 1, Len(s))
SliceTo(s, i) == SubSeq(s, 1, i)

\* str.startswith
startswith(s, prefix) ==
    /\ Len(prefix) <= Len(s)
    /\ SubSeq(s, 1, Len(prefix)) = prefix

\* str.endswith
endswith(s, suffix) ==
    /\ Len(suffix) <= Len(s)
    /\ SubSeq(s, Len(s) - Len(suffix) + 1, Len(s)) = suffix

\* str.count(c) for a one-character c
count(s, c) == Cardinality({i \in 1..Len(s) : s[i] = c})

\* str.rfind(c) + 1: the 1-based position of the last c, 0 when absent
rfind1(s, c) ==
    LET hits == {i \in 1..Len(s) : s[i] = c}
    IN  IF hits = {} THEN 0 ELSE CHOOSE i \in hits : \A j \in hits : j <= i

\* str.rstrip(c)
RECURSIVE rstrip(_, _)
rstrip(s, c) ==
    IF s # <<>> /\ s[Len(s)] = c THEN rstrip(SliceTo(s, Len(s) - 1), c) ELSE s

AllSeps(s) == \A i \in 1..Len(s) : s[i] = sep

\* posixpath.basename: everything after the last separator
basename(p) == SliceFrom(p, rfind1(p, sep))

\* posixpath.dirname: everything before the last separator, trailing
\* separators stripped unless the head is separators only
dirname(p) ==
    LET head == SliceTo(p, rfind1(p, sep))
    IN  IF head # <<>> /\ ~AllSeps(head) THEN rstrip(head, sep) ELSE head

\* posixpath.join of two parts
join(a, b) ==
    IF startswith(b, <<sep>>) THEN b
    ELSE IF a = <<>> \/ endswith(a, <<sep>>) THEN a \o b
    ELSE a \o <<sep>> \o b

\* str.split(sep): the components between separators, empty ones included
split(s) ==
    LET hits == {i \in 1..Len(s) : s[i] = sep}
        \* the position of the k-th separator; 0 and Len(s) + 1 bound the string
        cut(k) == IF k = 0 THEN 0
                  ELSE IF k > Cardinality(hits) THEN Len(s) + 1
                  ELSE CHOOSE i \in hits : Cardinality({j \in hits : j < i}) = k - 1
    IN  [k \in 1..(Cardinality(hits) + 1) |-> SubSeq(s, cut(k - 1) + 1, cut(k) - 1)]

\* sep.join(comps)
RECURSIVE sepjoin(_)
sepjoin(comps) ==
    IF comps = <<>> THEN <<>>
    ELSE IF Len(comps) = 1 THEN comps[1]
    ELSE comps[1] \o <<sep>> \o sepjoin(Tail(comps))

dot == <<".">>
dotdot == <<".", ".">>

\* the component loop of posixpath.normpath
RECURSIVE normcomps(_, _, _)
normcomps(comps, acc, initial_slashes) ==
    IF comps = <<>> THEN acc
    ELSE LET c == Head(comps)
             rest == Tail(comps)
         IN  IF c = <<>> \/ c = dot THEN normcomps(rest, acc, initial_slashes)
             ELSE IF c # dotdot
                     \/ (initial_slashes = 0 /\ acc = <<>>)
                     \/ (acc # <<>> /\ acc[Len(acc)] = dotdot)
                  THEN normcomps(rest, Append(acc, c), initial_slashes)
             ELSE IF acc # <<>>
                  THEN normcomps(rest, SliceTo(acc, Len(acc) - 1), initial_slashes)
             ELSE normcomps(rest, acc, initial_slashes)

RepeatSep(n) == [i \in 1..n |-> sep]

\* posixpath.normpath: comps = path.split(sep), the loop over comps,
\* path = sep.join(comps), the initial slashes put back.  Each stage is drawn
\* from a singleton set, which binds it to its value before the next stage
\* uses it.
normpath(p) ==
    IF p = <<>> THEN dot
    ELSE LET initial_slashes ==
                 IF ~startswith(p, <<sep>>) THEN 0
                 ELSE IF startswith(p, <<sep, sep>>) /\ ~startswith(p, <<sep, sep, sep>>)
                      THEN 2 ELSE 1
             bodies == {sepjoin(new_comps) :
                          new_comps \in {normcomps(comps, <<>>, initial_slashes) :
                                           comps \in {split(p)}}}
             out == CHOOSE o \in {RepeatSep(initial_slashes) \o body : body \in bodies} : TRUE
         IN  IF out = <<>> THEN dot ELSE out

\* the process's working directory (os.getcwd())
cwd == <<sep>>

\* posixpath.abspath
abspath(p) ==
    IF startswith(p, <<sep>>) THEN normpath(p) ELSE normpath(join(cwd, p))


\* str.lower(), on the characters that occur in the model's file names
Uppercase == <<"A", "B", "C", "D", "E", "F", "G", "H", "I", "J", "K", "L", "M",
               "N", "O", "P", "Q", "R", "S", "T", "U", "V", "W", "X", "Y", "Z">>
Lowercase == <<"a", "b", "c", "d", "e", "f", "g", "h", "i", "j", "k", "l", "m",
               "n", "o", "p", "q", "r", "s", "t", "u", "v", "w", "x", "y", "z">>
\* mutant: the extension is compared as written
lower_unchanged(s) == s

\* str.lower
lower(s) ==
    [i \in 1..Len(s) |->
        IF \E k \in 1..Len(Uppercase) : Uppercase[k] = s[i]
        THEN Lowercase[CHOOSE k \in 1..Len(Uppercase) : Uppercase[k] = s[i]]
        ELSE s[i]]

\* posixpath.splitext(p)[1]: from the last dot of the last component, unless
\* that component has only leading dots before it
splitext_ext(p) ==
    LET sepIndex == rfind1(p, sep)
        dotIndex == rfind1(p, ".")
    IN  IF dotIndex > sepIndex
           /\ \E i \in (sepIndex + 1)..(dotIndex - 1) : p[i] # "."
        THEN SliceFrom(p, dotIndex - 1)
        ELSE <<>>

(***************************************************************************)
(* constants.py                                                             *)
(***************************************************************************)
INCLUDE_HIDDEN_FOLDERS ==
    { <<".", "g", "i", "t">>,
      <<".", "c", "o", "n", "f", "i", "g">>,
      <<".", "h", "u", "g", "g", "i", "n", "g", "f", "a", "c", "e">>,
      <<".", "l", "o", "c", "a", "l">> }

\* The system entries of EXCLUDE_FOLDERS that lie in the model's tree: one
\* top-level directory, one nested directory, one written with a trailing
\* separator.
EXCLUDE_FOLDERS ==
    << <<"/", "p", "r", "i", "v", "a", "t", "e">>,
       <<"/", "v", "a", "r", "/", "l", "o", "g">>,
       <<"/", "L", "i", "b", "r", "a", "r", "y", "/", "K", "e", "x", "t", "s", "/">> >>

\* A float size (an option value, a size in MB) x is carried as the integer
\* x * MB_TO_BYTES: the model's floats are the multiples of 1/MB_TO_BYTES.
MB_TO_BYTES == 1048576
GB_TO_BYTES == 1073741824
Fixed(x) == x * MB_TO_BYTES
DEFAULT_SIZE_GB == Fixed(1)
SIZE_UNIT_GB == "GB"
SIZE_UNIT_MB == "MB"

(***************************************************************************)
(* videos/scanner.py                                                        *)
(***************************************************************************)
VIDEO_EXTENSIONS ==
    { <<".", "m", "p", "4">>, <<".", "m", "k", "v">>, <<".", "a", "v", "i">>,
      <<".", "m", "o", "v">>, <<".", "w", "m", "v">>, <<".", "f", "l", "v">>,
      <<".", "w", "e", "b", "m">>, <<".", "m", "4", "v">>, <<".", "m", "p", "g">>,
      <<".", "m", "p", "e", "g">>, <<".", "3", "g", "p">>, <<".", "3", "g", "2">>,
      <<".", "m", "2", "t", "s">>, <<".", "m", "t", "s">>, <<".", "t", "s">>,
      <<".", "v", "o", "b">>, <<".", "o", "g", "v">>, <<".", "r", "m">>,
      <<".", "r", "m", "v", "b">>, <<".", "a", "s", "f">>,
      <<".", "d", "i", "v", "x">> }

\* VideoScanner.is_video_file
is_video_file(filename) == lower(splitext_ext(filename)) \in VIDEO_EXTENSIONS

(***************************************************************************)
(* videos/core.py                                                           *)
(***************************************************************************)
core_VIDEO_EXTENSIONS ==
    { <<".", "m", "p", "4">>, <<".", "a", "v", "i">>, <<".", "m", "k", "v">>,
      <<".", "m", "o", "v">>, <<".", "w", "m", "v">>, <<".", "f", "l", "v">>,
      <<".", "w", "e", "b", "m">>, <<".", "m", "4", "v">>, <<".", "m", "p", "g">>,
      <<".", "m", "p", "e", "g">>, <<".", "3", "g", "p">>, <<".", "3", "g", "2">>,
      <<".", "m", "2", "t", "s">>, <<".", "m", "t", "s">>, <<".", "t", "s">>,
      <<".", "v", "o", "b">>, <<".", "o", "g", "v">>, <<".", "r", "m">>,
      <<".", "r", "m", "v", "b">>, <<".", "a", "s", "f">>,
      <<".", "d", "i", "v", "x">> }

\* videos/core.py is_video_file
core_is_video_file(filename) == lower(splitext_ext(filename)) \in core_VIDEO_EXTENSIONS

(***************************************************************************)
(* Bounds                                                                   *)
(***************************************************************************)
MaxSize == 2          \* the sizes of the files whose size varies: 1..MaxSize
MaxThreshold == 3     \* size_bytes_threshold ranges over 0..MaxThreshold
MaxScans == 2         \* scan() is called at most this many times on a scanner
MaxComps == 3         \* components of the argument of a direct should_skip_path call

(***************************************************************************)
(* The directory tree.  A directory or file is identified by its absolute, *)
(* normalised path.                                                         *)
(*                                                                         *)
(*   /            f                                                         *)
(*   /private     g            (an entry of EXCLUDE_FOLDERS)                *)
(*   /private/s   t                                                         *)
(*   /private2    h            (shares only a string prefix with /private)  *)
(*   /d           a  .h  m.MKV                                              *)
(*   /d/e         b.mp4                                                     *)
(*   /d/.git      c            (hidden, named in INCLUDE_HIDDEN_FOLDERS)    *)
(*   /tmp         small.txt  large.bin  .hidden_file                        *)
(*   /tmp/dir1    file1.txt  file2.txt      (the sample tree of the tests)  *)
(*   /tmp/dir2    file3.txt                                                 *)
(*   /tmp/.hidden_dir                                                       *)
(***************************************************************************)
n_private == <<"p", "r", "i", "v", "a", "t", "e">>
n_private2 == <<"p", "r", "i", "v", "a", "t", "e", "2">>
n_d == <<"d">>
n_e == <<"e">>
n_s == <<"s">>
n_git == <<".", "g", "i", "t">>
n_f == <<"f">>
n_g == <<"g">>
n_t == <<"t">>
n_h == <<"h">>
n_a == <<"a">>
n_hid == <<".", "h">>
n_mkv == <<"m", ".", "M", "K", "V">>
n_mp4 == <<"b", ".", "m", "p", "4">>
n_c == <<"c">>
n_tmp == <<"t", "m", "p">>
n_dir1 == <<"d", "i", "r", "1">>
n_dir2 == <<"d", "i", "r", "2">>
n_hidden_dir == <<".", "h", "i", "d", "d", "e", "n", "_", "d", "i", "r">>
n_small == <<"s", "m", "a", "l", "l", ".", "t", "x", "t">>
n_large == <<"l", "a", "r", "g", "e", ".", "b", "i", "n">>
n_hidden_file == <<".", "h", "i", "d", "d", "e", "n", "_", "f", "i", "l", "e">>
n_file1 == <<"f", "i", "l", "e", "1", ".", "t", "x", "t">>
n_file2 == <<"f", "i", "l", "e", "2", ".", "t", "x", "t">>
n_file3 == <<"f", "i", "l", "e", "3", ".", "t", "x", "t">>

D_root == <<sep>>
D_private == join(D_root, n_private)
D_private_s == join(D_private, n_s)
D_private2 == join(D_root, n_private2)
D_d == join(D_root, n_d)
D_e == join(D_d, n_e)
D_git == join(D_d, n_git)
D_tmp == join(D_root, n_tmp)
D_dir1 == join(D_tmp, n_dir1)
D_dir2 == join(D_tmp, n_dir2)
D_hidden_dir == join(D_tmp, n_hidden_dir)

TreeDirs == {D_root, D_private, D_private_s, D_private2, D_d, D_e, D_git,
             D_tmp, D_dir1, D_dir2, D_hidden_dir}

\* the entries of a directory in the order scandir yields them
SubdirNames(d) ==
    CASE d = D_root -> <<n_private, n_private2, n_d, n_tmp>>
      [] d = D_private -> <<n_s>>
      [] d = D_d -> <<n_e, n_git>>
      [] d = D_tmp -> <<n_dir1, n_dir2, n_hidden_dir>>
      [] OTHER -> <<>>

FileNames(d) ==
    CASE d = D_root -> <<n_f>>
      [] d = D_private -> <<n_g>>
      [] d = D_private_s -> <<n_t>>
      [] d = D_private2 -> <<n_h>>
      [] d = D_d -> <<n_a, n_hid, n_mkv>>
      [] d = D_e -> <<n_mp4>>
      [] d = D_git -> <<n_c>>
      [] d = D_tmp -> <<n_small, n_large, n_hidden_file>>
      [] d = D_dir1 -> <<n_file1, n_file2>>
      [] d = D_dir2 -> <<n_file3>>
      [] OTHER -> <<>>

F_f == join(D_root, n_f)
F_g == join(D_private, n_g)
F_t == join(D_private_s, n_t)
F_h == join(D_private2, n_h)
F_a == join(D_d, n_a)
F_hid == join(D_d, n_hid)
F_mkv == join(D_d, n_mkv)
F_mp4 == join(D_e, n_mp4)
F_c == join(D_git, n_c)
F_small == join(D_tmp, n_small)
F_large == join(D_tmp, n_large)
F_hidden_file == join(D_tmp, n_hidden_file)
F_file1 == join(D_dir1, n_file1)
F_file2 == join(D_dir1, n_file2)
F_file3 == join(D_dir2, n_file3)

AllFiles == {F_f, F_g, F_t, F_h, F_a, F_hid, F_mkv, F_mp4, F_c,
             F_small, F_large, F_hidden_file, F_file1, F_file2, F_file3}

\* files whose size is drawn from 1..MaxSize; the others have the size below
VaryingFiles == {F_a, F_mp4}
FixedSize(f) ==
    CASE f = F_h -> 1
      [] f = F_f -> 1
      [] f = F_mkv -> 2
      [] f = F_c -> 1
      [] f = F_small -> 100
      [] f = F_large -> 2048
      [] f = F_hidden_file -> 2048
      [] f = F_file1 -> 3072
      [] f = F_file2 -> 100
      [] f = F_file3 -> 4096
      [] OTHER -> 4

\* the strings a scanner may be given as search_dir
SearchDirs ==
    { D_root,                      \* "/"
      D_d,                         \* "/d"
      D_d \o <<sep>>,              \* "/d/"
      n_d,                         \* "d", relative to cwd
      dot,                         \* "."
      D_private,                   \* "/private"
      D_git }                      \* "/d/.git"

\* the tests' scanners: size_mb=0.001 on the sample tree
SampleThreshold == MB_TO_BYTES \div 1000

Reverse(s) == [i \in 1..Len(s) |-> s[Len(s) + 1 - i]]

(***************************************************************************)
(* State                                                                    *)
(***************************************************************************)
VARIABLES
    mode,                  \* the scanner class: "files", "videos" or "dirs"
    search_dir,            \* self.search_dir
    size_bytes_threshold,  \* self.size_bytes_threshold
    verbose,               \* self.verbose
    exclude_folders_abs,   \* self.exclude_folders_abs
    items_list,            \* self.items_list: sequence of <<path, size>>
    total_bytes,           \* self.total_bytes
    dir_sizes,             \* self.dir_sizes: dict, as <<path, size>> in insertion order
    fsize,                 \* the tree: size of each file
    fails,                 \* the tree: files for which os.path.getsize raises OSError
    rev,                   \* the tree: scandir yields entries in reverse order
    pc,                    \* position inside scan()
    walk_stack,            \* os.walk: directories still to be listed
    root,                  \* loop variables of "for root, dirs, files in os.walk"
    dirs,
    files,
    dir_size,              \* DirectoryScanner.scan: local dir_size
    rollup_todo,           \* DirectoryScanner.scan: rest of the sorted() list
    exit_code,             \* status passed to sys.exit, -1 while running
    listed,                \* directories handed to scandir by this scan()
    statted,               \* paths handed to os.path.getsize by this scan()
    scans,                 \* number of scan() calls that returned
    history,               \* items_list and total_bytes at each return of scan()
    skip_arg,              \* argument of a direct should_skip_path call
    skip_result,           \* its result "True" or "False", "none" before the call
    video_arg,             \* argument of a direct is_video_file call
    video_result,          \* <<VideoScanner.is_video_file, videos.core.is_video_file>>
                           \* of it, each "True" or "False"; <<>> before the call
    entry,                 \* who drives the scanner: "api" (scan() called directly),
                           \* "files", "dirs", "vids" (the commands of cli.py),
                           \* "files_main" (files/cli.py), "videos_main" (videos/cli.py)
    size_gb,               \* option --size-in-gb: <<>> for None, else <<value>>
    size_mb,               \* option --size-in-mb: <<>> for None, else <<value>>
    no_size,               \* option --no-size
    output_file,           \* option --output: "" for None, else the destination
    write_fails,           \* the environment: writing to an opened destination raises
    fault_at,              \* the environment: the directory visit (1, 2, ..) whose loop
                           \* body raises outside the inner try; 0 for none
    size_mb_arg,           \* the size in MB handed to the scanner, <<>> before validation
    size_unit,             \* the size unit handed to the scanner, "" before validation
    out_file,              \* the destination: "absent", "old" (an earlier output),
                           \* "empty" (created, nothing written), "clobbered" (the
                           \* earlier output truncated), "new" (the results written)
    out_content,           \* the content of the destination: the renderings it holds
    terminal,              \* the renderings printed on the terminal
    errors,                \* number of calls of formatting.print_error
    success,               \* number of calls of formatting.print_success
    data_lines,            \* the value of format_results()
    trace                  \* the steps of the command executed so far

vars == <<mode, search_dir, size_bytes_threshold, verbose, exclude_folders_abs,
          items_list, total_bytes, dir_sizes, fsize, fails, rev, pc, walk_stack,
          root, dirs, files, dir_size, rollup_todo, exit_code, listed, statted,
          scans, history, skip_arg, skip_result, video_arg, video_result, entry, size_gb, size_mb, no_size,
          output_file, write_fails, fault_at, size_mb_arg, size_unit, out_file,
          out_content, terminal, errors, success, data_lines, trace>>

run_env == <<entry, size_gb, size_mb, no_size, output_file, write_fails, fault_at>>
run_rest == <<size_mb_arg, size_unit, out_file, out_content, terminal, success,
              data_lines, trace>>

config_vars == <<mode, search_dir, size_bytes_threshold, verbose,
                 exclude_folders_abs, fsize, fails, rev>>
skip_vars == <<skip_arg, skip_result, video_arg, video_result>>
loop_vars == <<root, dirs, files, dir_size>>

(***************************************************************************)
(* dict, sorted()                                                           *)
(***************************************************************************)
DictKeys(d) == [i \in 1..Len(d) |-> d[i][1]]
DictHas(d, k) == \E i \in 1..Len(d) : d[i][1] = k
DictGet(d, k) == d[CHOOSE i \in 1..Len(d) : d[i][1] = k][2]
DictPut(d, k, v) ==
    IF DictHas(d, k)
    THEN [i \in 1..Len(d) |-> IF d[i][1] = k THEN <<k, v>> ELSE d[i]]
    ELSE Append(d, <<k, v>>)

\* sorted(s, key=..., reverse=desc), keys[i] being the key of s[i]: stable in
\* both directions
StableSort(s, keys, desc) ==
    LET before(j, i) == IF desc THEN keys[j] > keys[i] ELSE keys[j] < keys[i]
        rank(i) == 1 + Cardinality({j \in 1..Len(s) :
                          before(j, i) \/ (keys[j] = keys[i] /\ j < i)})
    IN  [r \in 1..Len(s) |-> s[CHOOSE i \in 1..Len(s) : rank(i) = r]]

(***************************************************************************)
(* core.py: SizeScannerBase                                                 *)
(***************************************************************************)
\* SizeScannerBase.__init__: exclude_folders_abs
InitExcludeFoldersAbs == [i \in 1..Len(EXCLUDE_FOLDERS) |-> abspath(EXCLUDE_FOLDERS[i])]

\* mutant: the include set is not consulted
HiddenRuleAllDots(path) == startswith(basename(path), dot)

\* should_skip_path, first test: hidden basename outside the include set
HiddenRule(path) ==
    LET b == basename(path)
    IN  startswith(b, dot) /\ b \notin INCLUDE_HIDDEN_FOLDERS

\* mutant: only the excluded directory itself matches, nothing below it
DenylistRuleExact(path) ==
    \E i \in 1..Len(exclude_folders_abs) : abspath(path) = exclude_folders_abs[i]

\* should_skip_path, the loop over exclude_folders_abs
DenylistRule(path) ==
    LET abs_path == abspath(path)
    IN  \E i \in 1..Len(exclude_folders_abs) :
            startswith(abs_path, exclude_folders_abs[i])

\* mutant: the rules are not applied to the search directory itself
should_skip_path_below_root(path) ==
    path # search_dir /\ (HiddenRule(path) \/ DenylistRule(path))

should_skip_path(path) == HiddenRule(path) \/ DenylistRule(path)

(***************************************************************************)
(* os.walk, os.path.getsize                                                 *)
(***************************************************************************)
Scandir(seq) == IF rev THEN Reverse(seq) ELSE seq
\* mutant: no name counts as hidden
IsHiddenNameNever(name) == FALSE

IsHiddenName(name) == startswith(name, dot)
NotHiddenName(name) == ~IsHiddenName(name)

\* mutant: every retained sub-directory is pushed twice
PushDirsTwice(stack, top, ds) ==
    stack \o [i \in 1..(2 * Len(ds)) |-> join(top, ds[Len(ds) + 1 - ((i + 1) \div 2)])]

\* the paths os.walk pushes after the loop body: reversed(dirs), joined to top
PushDirs(stack, top, ds) ==
    stack \o [i \in 1..Len(ds) |-> join(top, ds[Len(ds) + 1 - i])]

StatFails(file_path) == abspath(file_path) \in fails
getsize(file_path) == fsize[abspath(file_path)]

(***************************************************************************)
(* dirs/scanner.py                                                          *)
(***************************************************************************)
Depth(path) == count(path, sep)
ItemDepth(item) == count(item[1], sep)

\* the list the rollup loop iterates over
RollupOrder(d) ==
    StableSort(DictKeys(d), [i \in 1..Len(d) |-> Depth(d[i][1])], TRUE)

\* one iteration of the rollup loop
RollupOne(d, path) ==
    LET parent == dirname(path)
    IN  IF DictHas(d, parent)
        THEN DictPut(d, parent, DictGet(d, parent) + DictGet(d, path))
        ELSE d

\* the threshold loop over dir_sizes.items()
FilterDirs(d, threshold) == SelectSeq(d, LAMBDA e : e[2] >= threshold)

RECURSIVE TotalLoop(_, _, _)
TotalLoop(items, total, counted_paths) ==
    IF items = <<>> THEN total
    ELSE LET abs_path == abspath(items[1][1])
             size_bytes == items[1][2]
             covered == \E i \in 1..Len(counted_paths) :
                            \/ abs_path = counted_paths[i]
                            \/ startswith(abs_path, counted_paths[i] \o <<sep>>)
         IN  IF covered
             THEN TotalLoop(Tail(items), total, counted_paths)
             ELSE TotalLoop(Tail(items), total + size_bytes,
                            Append(counted_paths, abs_path))

\* DirectoryScanner._calculate_total_bytes
calculate_total_bytes(items) ==
    TotalLoop(StableSort(items, [i \in 1..Len(items) |-> ItemDepth(items[i])], FALSE),
              0, <<>>)

(***************************************************************************)
(* Initial states: a freshly constructed scanner over some tree             *)
(***************************************************************************)
Modes == {"files", "videos", "dirs"}

\* the files one of which may fail to stat (getsize is never called on
\* hidden files, nor on files of a pruned directory)
StatCandidates == {F_f, F_a, F_mkv, F_mp4}

FileSizes ==
    {[f \in AllFiles |-> IF f \in VaryingFiles THEN sz[f] ELSE FixedSize(f)] :
        sz \in [VaryingFiles -> 1..MaxSize]}

\* no file, or one file, for which os.path.getsize raises OSError
FailSets == {{}} \cup {{f} : f \in StatCandidates}

\* the (search_dir, threshold) pairs of a scanner constructed directly
DirectArgs ==
    (SearchDirs \X (0..MaxThreshold)) \cup {<<D_tmp, SampleThreshold>>}

\* nothing but the scanner: no command line, no output file, no fault
ApiEnv ==
    /\ entry = "api"
    /\ size_gb = <<>>
    /\ size_mb = <<>>
    /\ no_size = FALSE
    /\ output_file = ""
    /\ write_fails = FALSE
    /\ fault_at = 0
    /\ size_mb_arg = <<>>
    /\ size_unit = ""
    /\ out_file = "absent"
    /\ out_content = <<>>
    /\ terminal = <<>>
    /\ errors = 0
    /\ success = 0
    /\ data_lines = <<>>
    /\ trace = <<>>

ScannerInit ==
    /\ mode \in Modes
    /\ \E a \in DirectArgs : search_dir = a[1] /\ size_bytes_threshold = a[2]
    /\ verbose \in BOOLEAN
    /\ exclude_folders_abs = InitExcludeFoldersAbs
    /\ items_list = <<>>
    /\ total_bytes = 0
    /\ dir_sizes = <<>>
    /\ fsize \in FileSizes
    /\ fails \in FailSets
    /\ rev \in BOOLEAN
    /\ pc = "idle"
    /\ walk_stack = <<>>
    /\ root = <<>>
    /\ dirs = <<>>
    /\ files = <<>>
    /\ dir_size = 0
    /\ rollup_todo = <<>>
    /\ exit_code = -1
    /\ listed = <<>>
    /\ statted = <<>>
    /\ scans = 0
    /\ history = <<>>

Init ==
    /\ ScannerInit
    /\ ApiEnv
    /\ skip_arg = <<>>
    /\ skip_result = "none"
    /\ video_arg = <<>>
    /\ video_result = <<>>

(***************************************************************************)
(* A direct call of should_skip_path on a constructed scanner               *)
(***************************************************************************)
n_var == <<"v", "a", "r">>
n_log == <<"l", "o", "g">>
n_x == <<".", "x">>
ProbeComponents == {n_private, n_private2, n_var, n_log, n_d, n_git, n_x, dotdot}

\* relative paths of 1..n components
RECURSIVE RelPaths(_)
RelPaths(n) ==
    IF n = 0 THEN {}
    ELSE ProbeComponents
         \cup {join(p, c) : p \in RelPaths(n - 1), c \in ProbeComponents}

\* relative and absolute, with and without a trailing separator
ProbePaths ==
    LET rel == RelPaths(MaxComps)
        both == rel \cup {<<sep>> \o p : p \in rel}
    IN  both \cup {p \o <<sep>> : p \in both}

SkipInit ==
    /\ mode = "files"
    /\ search_dir = D_root
    /\ size_bytes_threshold = 0
    /\ verbose = FALSE
    /\ exclude_folders_abs = InitExcludeFoldersAbs
    /\ items_list = <<>>
    /\ total_bytes = 0
    /\ dir_sizes = <<>>
    /\ fsize = [f \in AllFiles |-> FixedSize(f)]
    /\ fails = {}
    /\ rev = FALSE
    /\ pc = "idle"
    /\ walk_stack = <<>>
    /\ root = <<>>
    /\ dirs = <<>>
    /\ files = <<>>
    /\ dir_size = 0
    /\ rollup_todo = <<>>
    /\ exit_code = -1
    /\ listed = <<>>
    /\ statted = <<>>
    /\ scans = 0
    /\ history = <<>>
    /\ skip_arg \in ProbePaths
    /\ skip_result = "none"
    /\ video_arg = <<>>
    /\ video_result = <<>>
    /\ ApiEnv

CallShouldSkip ==
    /\ pc = "idle"
    /\ skip_result = "none"
    /\ skip_result' = IF should_skip_path(skip_arg) THEN "True" ELSE "False"
    /\ UNCHANGED <<config_vars, items_list, total_bytes, dir_sizes, pc, walk_stack,
                   loop_vars, rollup_todo, exit_code, errors, listed, statted, scans,
                   history, skip_arg, video_arg, video_result, run_env, run_rest>>

SkipNext == CallShouldSkip

SkipSpec == SkipInit /\ [][SkipNext]_vars

(***************************************************************************)
(* A direct call of is_video_file, of the scanner and of videos/core.py     *)
(***************************************************************************)
upper(s) ==
    [i \in 1..Len(s) |->
        IF \E k \in 1..Len(Lowercase) : Lowercase[k] = s[i]
        THEN Uppercase[CHOOSE k \in 1..Len(Lowercase) : Lowercase[k] = s[i]]
        ELSE s[i]]

NameStems ==
    { <<>>, <<".">>,
      <<"m", "o", "v", "i", "e">>, <<"v", "i", "d", "e", "o">>,
      <<"n", "o", "t", "e", "s">>, <<"i", "m", "a", "g", "e">> }

NameEndings ==
    VIDEO_EXTENSIONS
    \cup {upper(e) : e \in VIDEO_EXTENSIONS}
    \cup {Tail(e) : e \in VIDEO_EXTENSIONS}
    \cup { <<".", "M", "p", "4">>, <<".", "t", "x", "t">>, <<".", "j", "p", "g">>,
           <<".", "m", "p">>, <<".", "m", "p", "4", ".">>, <<".">>, <<>> }

VideoNames == {stem \o ending : stem \in NameStems, ending \in NameEndings} \ {<<>>}

ClassifyInit ==
    /\ mode = "videos"
    /\ search_dir = D_root
    /\ size_bytes_threshold = 0
    /\ verbose = FALSE
    /\ exclude_folders_abs = InitExcludeFoldersAbs
    /\ items_list = <<>>
    /\ total_bytes = 0
    /\ dir_sizes = <<>>
    /\ fsize = [f \in AllFiles |-> FixedSize(f)]
    /\ fails = {}
    /\ rev = FALSE
    /\ pc = "idle"
    /\ walk_stack = <<>>
    /\ root = <<>>
    /\ dirs = <<>>
    /\ files = <<>>
    /\ dir_size = 0
    /\ rollup_todo = <<>>
    /\ exit_code = -1
    /\ listed = <<>>
    /\ statted = <<>>
    /\ scans = 0
    /\ history = <<>>
    /\ skip_arg = <<>>
    /\ skip_result = "none"
    /\ video_arg \in VideoNames
    /\ video_result = <<>>
    /\ ApiEnv

CallIsVideoFile ==
    /\ pc = "idle"
    /\ video_arg # <<>>
    /\ video_result = <<>>
    /\ video_result' = <<IF is_video_file(video_arg) THEN "True" ELSE "False",
                         IF core_is_video_file(video_arg) THEN "True" ELSE "False">>
    /\ UNCHANGED <<config_vars, items_list, total_bytes, dir_sizes, pc, walk_stack,
                   loop_vars, rollup_todo, exit_code, errors, listed, statted, scans,
                   history, skip_arg, skip_result, video_arg, run_env, run_rest>>

ClassifyNext == CallIsVideoFile

ClassifySpec == ClassifyInit /\ [][ClassifyNext]_vars

(***************************************************************************)
(* scan()                                                                   *)
(***************************************************************************)
\* scan() is entered.  Only DirectoryScanner.scan resets the result fields.
StartScan ==
    /\ \/ pc = "idle"
       \/ pc = "returned" /\ scans < MaxScans /\ entry = "api"
    /\ pc' = "walk"
    /\ walk_stack' = <<search_dir>>
    /\ IF mode = "dirs"
       THEN /\ dir_sizes' = <<>>
            /\ items_list' = <<>>
            /\ total_bytes' = 0
       ELSE UNCHANGED <<dir_sizes, items_list, total_bytes>>
    /\ listed' = <<>>
    /\ statted' = <<>>
    /\ UNCHANGED <<config_vars, loop_vars, rollup_todo, exit_code, errors, scans, history,
                   skip_vars, run_env, run_rest>>

\* mutant: sys.exit raises something run()'s except Exception catches, and
\* run() reports the error again
ErrorExitTwice ==
    /\ pc' = "exited"
    /\ exit_code' = 1
    /\ errors' = errors + 2
    /\ walk_stack' = <<>>
    /\ root' = <<>>
    /\ dirs' = <<>>
    /\ files' = <<>>
    /\ dir_size' = 0

\* error_exit from the outer except of scan(): print_error, sys.exit(1)
ErrorExit ==
    /\ pc' = "exited"
    /\ exit_code' = 1
    /\ errors' = errors + 1
    /\ walk_stack' = <<>>
    /\ root' = <<>>
    /\ dirs' = <<>>
    /\ files' = <<>>
    /\ dir_size' = 0

\* os.walk lists the next directory and yields it; the loop body runs up to
\* the loop over files.
WalkNext ==
    /\ pc = "walk"
    /\ walk_stack # <<>>
    /\ LET top == walk_stack[Len(walk_stack)]
           rest == SliceTo(walk_stack, Len(walk_stack) - 1)
           id == abspath(top)
       IN  /\ listed' = Append(listed, top)
           /\ IF fault_at = Len(listed) + 1
              THEN \* the loop body raises outside the inner try (MemoryError,
                   \* os.getcwd() failing in abspath): the outer except
                   ErrorExit
              ELSE IF should_skip_path(top)
              THEN \* dirs[:] = []; continue
                   /\ walk_stack' = rest
                   /\ UNCHANGED <<pc, loop_vars, exit_code, errors>>
              ELSE /\ walk_stack' = rest
                   /\ root' = top
                   /\ dirs' = SelectSeq(Scandir(SubdirNames(id)), NotHiddenName)
                   /\ files' = Scandir(FileNames(id))
                   /\ dir_size' = 0
                   /\ pc' = "body"
                   /\ UNCHANGED <<exit_code, errors>>
    /\ UNCHANGED <<config_vars, items_list, total_bytes, dir_sizes, rollup_todo,
                   statted, scans, history, skip_vars, run_env, run_rest>>

\* mutant: a stat error is not caught by the inner try and ends the scan
OnStatErrorAbort ==
    /\ ErrorExit
    /\ UNCHANGED <<items_list, total_bytes>>

\* except (OSError, FileNotFoundError): continue
OnStatError ==
    /\ files' = Tail(files)
    /\ UNCHANGED <<pc, walk_stack, root, dirs, dir_size, items_list, total_bytes,
                   exit_code, errors>>

\* mutant: the size of the new entry is not added to total_bytes
AddItemUncounted(file_path, size_bytes) ==
    /\ items_list' = Append(items_list, <<file_path, size_bytes>>)
    /\ total_bytes' = total_bytes

\* self.items_list.append((file_path, size_bytes)); self.total_bytes += size_bytes
AddItem(file_path, size_bytes) ==
    /\ items_list' = Append(items_list, <<file_path, size_bytes>>)
    /\ total_bytes' = total_bytes + size_bytes

\* one iteration of "for filename in files"
ProcessFile ==
    /\ pc = "body"
    /\ files # <<>>
    /\ LET filename == Head(files)
           file_path == join(root, filename)
           skipped == \/ IsHiddenName(filename)
                      \/ mode = "videos" /\ ~is_video_file(filename)
       IN  IF skipped
           THEN /\ files' = Tail(files)
                /\ UNCHANGED <<pc, walk_stack, root, dirs, dir_size, items_list,
                               total_bytes, exit_code, errors, statted>>
           ELSE /\ statted' = Append(statted, file_path)
                /\ IF StatFails(file_path)
                   THEN OnStatError
                   ELSE IF mode = "dirs"
                   THEN /\ dir_size' = dir_size + getsize(file_path)
                        /\ files' = Tail(files)
                        /\ UNCHANGED <<pc, walk_stack, root, dirs, items_list,
                                       total_bytes, exit_code, errors>>
                   ELSE IF getsize(file_path) < size_bytes_threshold
                   THEN /\ files' = Tail(files)
                        /\ UNCHANGED <<pc, walk_stack, root, dirs, dir_size,
                                       items_list, total_bytes, exit_code, errors>>
                   ELSE IF verbose
                   THEN \* self.MB_TO_BYTES is no attribute of the scanner:
                        \* AttributeError, caught by the outer except
                        /\ ErrorExit
                        /\ UNCHANGED <<items_list, total_bytes>>
                   ELSE /\ AddItem(file_path, getsize(file_path))
                        /\ files' = Tail(files)
                        /\ UNCHANGED <<pc, walk_stack, root, dirs, dir_size, exit_code, errors>>
    /\ UNCHANGED <<config_vars, dir_sizes, rollup_todo, listed, scans, history,
                   skip_vars, run_env, run_rest>>

\* the loop over files is over: DirectoryScanner stores dir_size; os.walk
\* resumes and pushes the retained sub-directories.
EndBody ==
    /\ pc = "body"
    /\ files = <<>>
    /\ dir_sizes' = IF mode = "dirs" THEN DictPut(dir_sizes, root, dir_size)
                    ELSE dir_sizes
    /\ walk_stack' = PushDirs(walk_stack, root, dirs)
    /\ root' = <<>>
    /\ dirs' = <<>>
    /\ dir_size' = 0
    /\ pc' = "walk"
    /\ UNCHANGED <<config_vars, items_list, total_bytes, files, rollup_todo,
                   exit_code, errors, listed, statted, scans, history, skip_vars, run_env, run_rest>>

\* scan() returns to its caller
Return(items, total) ==
    /\ pc' = "returned"
    /\ scans' = scans + 1
    /\ history' = Append(history, [items |-> items, total |-> total])

\* mutant: the loop over os.walk is left before the walk is exhausted
WalkDoneEarly ==
    /\ pc = "walk"
    /\ IF mode = "dirs"
       THEN /\ rollup_todo' = RollupOrder(dir_sizes)
            /\ pc' = "rollup"
            /\ UNCHANGED <<scans, history>>
       ELSE /\ Return(items_list, total_bytes)
            /\ UNCHANGED rollup_todo
    /\ UNCHANGED <<config_vars, items_list, total_bytes, dir_sizes, walk_stack,
                   loop_vars, exit_code, errors, listed, statted, skip_vars, run_env, run_rest>>

\* os.walk is exhausted
WalkDone ==
    /\ pc = "walk"
    /\ walk_stack = <<>>
    /\ IF mode = "dirs"
       THEN /\ rollup_todo' = RollupOrder(dir_sizes)
            /\ pc' = "rollup"
            /\ UNCHANGED <<scans, history>>
       ELSE /\ Return(items_list, total_bytes)
            /\ UNCHANGED rollup_todo
    /\ UNCHANGED <<config_vars, items_list, total_bytes, dir_sizes, walk_stack,
                   loop_vars, exit_code, errors, listed, statted, skip_vars, run_env, run_rest>>

\* one iteration of the rollup loop
RollupStep ==
    /\ pc = "rollup"
    /\ rollup_todo # <<>>
    /\ dir_sizes' = RollupOne(dir_sizes, Head(rollup_todo))
    /\ rollup_todo' = Tail(rollup_todo)
    /\ UNCHANGED <<config_vars, items_list, total_bytes, pc, walk_stack, loop_vars,
                   exit_code, errors, listed, statted, scans, history, skip_vars, run_env, run_rest>>

\* the threshold loop
Filter ==
    /\ pc = "rollup"
    /\ rollup_todo = <<>>
    /\ items_list' = items_list \o FilterDirs(dir_sizes, size_bytes_threshold)
    /\ pc' = "total"
    /\ UNCHANGED <<config_vars, total_bytes, dir_sizes, walk_stack, loop_vars,
                   rollup_todo, exit_code, errors, listed, statted, scans, history, skip_vars, run_env, run_rest>>

\* self.total_bytes = self._calculate_total_bytes(); scan() returns
Total ==
    /\ pc = "total"
    /\ total_bytes' = calculate_total_bytes(items_list)
    /\ Return(items_list, calculate_total_bytes(items_list))
    /\ UNCHANGED <<config_vars, items_list, dir_sizes, walk_stack, loop_vars,
                   rollup_todo, exit_code, errors, listed, statted, skip_vars, run_env, run_rest>>

Next ==
    \/ StartScan
    \/ WalkNext
    \/ ProcessFile
    \/ EndBody
    \/ WalkDone
    \/ RollupStep
    \/ Filter
    \/ Total

Spec == Init /\ [][Next]_vars

(***************************************************************************)
(* The command line: cli.py, files/cli.py, videos/cli.py, and run()         *)
(***************************************************************************)
MaxOpt == 3           \* the size options range over -1..MaxOpt (times 1/MB_TO_BYTES)

CliCommands == {"files", "dirs", "vids"}
LegacyMains == {"files_main", "videos_main"}

n_nx == <<"n", "x">>
D_nx == join(D_root, n_nx)         \* no such directory

RunDirs == {D_d, D_tmp, D_nx}
SizeOptions == {<<>>} \cup {<<v>> : v \in -1..MaxOpt}
OutputFiles == {"", "out.txt", "nodir/out.txt"}

\* Path(directory).is_dir(), os.path.isdir(directory)
is_dir(directory) == abspath(directory) \in TreeDirs

\* the parent directory of the destination exists
ParentExists(path) == path = "out.txt"

\* mutant: the sign of the given option is not checked
validate_size_options_unsigned(gb, mb) ==
    IF gb # <<>> /\ mb # <<>>
    THEN [abort |-> TRUE, size_mb |-> 0, size_unit |-> ""]
    ELSE IF gb # <<>>
    THEN [abort |-> FALSE, size_mb |-> gb[1] * 1024, size_unit |-> SIZE_UNIT_GB]
    ELSE IF mb # <<>>
    THEN [abort |-> FALSE, size_mb |-> mb[1], size_unit |-> SIZE_UNIT_MB]
    ELSE [abort |-> FALSE, size_mb |-> DEFAULT_SIZE_GB * 1024, size_unit |-> SIZE_UNIT_GB]

\* validate_size_options(size_gb, size_mb): aborted, or the pair it returns
validate_size_options(gb, mb) ==
    IF gb # <<>> /\ mb # <<>>
    THEN [abort |-> TRUE, size_mb |-> 0, size_unit |-> ""]
    ELSE IF gb # <<>> /\ gb[1] <= 0
    THEN [abort |-> TRUE, size_mb |-> 0, size_unit |-> ""]
    ELSE IF mb # <<>> /\ mb[1] <= 0
    THEN [abort |-> TRUE, size_mb |-> 0, size_unit |-> ""]
    ELSE IF gb # <<>>
    THEN [abort |-> FALSE, size_mb |-> gb[1] * 1024, size_unit |-> SIZE_UNIT_GB]
    ELSE IF mb # <<>>
    THEN [abort |-> FALSE, size_mb |-> mb[1], size_unit |-> SIZE_UNIT_MB]
    ELSE [abort |-> FALSE, size_mb |-> DEFAULT_SIZE_GB * 1024, size_unit |-> SIZE_UNIT_GB]

\* the size computation of scan_files and of videos/cli.py main: no sign check
legacy_size(gb, mb) ==
    IF gb # <<>>
    THEN [size_mb |-> gb[1] * 1024, size_unit |-> SIZE_UNIT_GB]
    ELSE IF mb # <<>>
    THEN [size_mb |-> mb[1], size_unit |-> SIZE_UNIT_MB]
    ELSE [size_mb |-> DEFAULT_SIZE_GB * 1024, size_unit |-> SIZE_UNIT_GB]

\* int(size_mb * MB_TO_BYTES): size_mb is carried as the integer
\* size_mb * MB_TO_BYTES, of which int() is the value itself
threshold_bytes(mb) == mb

\* f"{size:.2f}": the hundredths of size_bytes / unit, rounded half to even
Hundredths(size_bytes, unit) ==
    LET q == (size_bytes * 100) \div unit
        r == (size_bytes * 100) % unit
    IN  IF 2 * r > unit \/ (2 * r = unit /\ q % 2 = 1) THEN q + 1 ELSE q

\* format_size
format_size(size_bytes, unit) ==
    IF unit = SIZE_UNIT_GB
    THEN <<Hundredths(size_bytes, MB_TO_BYTES * 1024), SIZE_UNIT_GB>>
    ELSE <<Hundredths(size_bytes, MB_TO_BYTES), SIZE_UNIT_MB>>

\* format_results
format_results(items, unit, nosize) ==
    (IF nosize THEN << <<"Location">> >> ELSE << <<"Location", "Size">> >>)
    \o [i \in 1..Len(items) |->
          IF nosize THEN <<items[i][1]>>
          ELSE <<items[i][1], format_size(items[i][2], unit)>>]

\* _print_total_size: the total in the unit of its range (totals of 1024**4
\* and more are beyond the sizes of the trees considered)
print_total_size(total) ==
    IF total >= GB_TO_BYTES
    THEN <<Hundredths(total, GB_TO_BYTES), "GB">>
    ELSE <<Hundredths(total, MB_TO_BYTES), "MB">>

\* format_table(data_lines, no_size, total_bytes, console): what is printed on
\* the console, one row per line after the header, then the summary
format_table(lines, nosize, total) ==
    [rows |-> Tail(lines),
     summary |-> IF ~nosize /\ total > 0 THEN <<print_total_size(total)>> ELSE <<>>]

\* the content of a destination written by an earlier run
EarlierOutput == [rows |-> << <<"earlier">> >>, summary |-> <<>>]

\* the process ends through click.Abort or sys.exit after print_error
AbortWithError ==
    /\ errors' = errors + 1
    /\ exit_code' = 1
    /\ pc' = "exited"

\* mutant: the directory is not checked
ValidateDirectoryUnchecked ==
    /\ pc = "cli"
    /\ entry \in CliCommands
    /\ trace' = Append(trace, "validate_directory")
    /\ pc' = "dir_ok"
    /\ UNCHANGED <<errors, exit_code>>
    /\ UNCHANGED <<config_vars, items_list, total_bytes, dir_sizes, walk_stack,
                   loop_vars, rollup_todo, listed, statted, scans, history,
                   skip_vars, run_env, size_mb_arg, size_unit, out_file,
                   out_content, terminal, success, data_lines>>

\* validate_directory(directory), the first statement of a command of cli.py
ValidateDirectory ==
    /\ pc = "cli"
    /\ entry \in CliCommands
    /\ trace' = Append(trace, "validate_directory")
    /\ IF is_dir(search_dir)
       THEN /\ pc' = "dir_ok"
            /\ UNCHANGED <<errors, exit_code>>
       ELSE AbortWithError
    /\ UNCHANGED <<config_vars, items_list, total_bytes, dir_sizes, walk_stack,
                   loop_vars, rollup_todo, listed, statted, scans, history,
                   skip_vars, run_env, size_mb_arg, size_unit, out_file,
                   out_content, terminal, success, data_lines>>

\* size_mb, size_unit = validate_size_options(size_gb, size_mb)
ValidateSizeOptions ==
    /\ pc = "dir_ok"
    /\ trace' = Append(trace, "validate_size_options")
    /\ LET r == validate_size_options(size_gb, size_mb)
       IN  IF r.abort
           THEN /\ AbortWithError
                /\ UNCHANGED <<size_mb_arg, size_unit>>
           ELSE /\ size_mb_arg' = <<r.size_mb>>
                /\ size_unit' = r.size_unit
                /\ pc' = "size_ok"
                /\ UNCHANGED <<errors, exit_code>>
    /\ UNCHANGED <<config_vars, items_list, total_bytes, dir_sizes, walk_stack,
                   loop_vars, rollup_todo, listed, statted, scans, history,
                   skip_vars, run_env, out_file, out_content, terminal, success,
                   data_lines>>

\* scanner = FileScanner(...) / DirectoryScanner(...) / VideoScanner(...);
\* scanner.run() is entered
Construct ==
    /\ pc = "size_ok"
    /\ trace' = Append(trace, "construct")
    /\ size_bytes_threshold' = threshold_bytes(size_mb_arg[1])
    /\ items_list' = <<>>
    /\ total_bytes' = 0
    /\ pc' = "idle"
    /\ UNCHANGED <<mode, search_dir, verbose, exclude_folders_abs, fsize, fails, rev,
                   dir_sizes, walk_stack, loop_vars, rollup_todo, exit_code, errors,
                   listed, statted, scans, history, skip_vars, run_env, size_mb_arg,
                   size_unit, out_file, out_content, terminal, success, data_lines>>

\* run(): data_lines = self.format_results()
FormatResults ==
    /\ pc = "returned"
    /\ entry \in CliCommands
    /\ trace' = Append(trace, "format_results")
    /\ data_lines' = format_results(items_list, size_unit, no_size)
    /\ pc' = "formatted"
    /\ UNCHANGED <<config_vars, items_list, total_bytes, dir_sizes, walk_stack,
                   loop_vars, rollup_todo, exit_code, errors, listed, statted,
                   scans, history, skip_vars, run_env, size_mb_arg, size_unit,
                   out_file, out_content, terminal, success>>

\* mutant: the destination is opened for appending
SaveOpenAppend ==
    /\ pc = "formatted"
    /\ trace' = Append(trace, "save_results")
    /\ IF output_file = ""
       THEN /\ terminal' = Append(terminal, format_table(data_lines, no_size, total_bytes))
            /\ pc' = "done"
            /\ exit_code' = 0
            /\ UNCHANGED <<errors, out_file, out_content>>
       ELSE IF ~ParentExists(output_file)
       THEN /\ AbortWithError
            /\ UNCHANGED <<terminal, out_file, out_content>>
       ELSE /\ out_file' = IF out_file = "old" THEN "old" ELSE "empty"
            /\ out_content' = out_content
            /\ pc' = "opened"
            /\ UNCHANGED <<terminal, errors, exit_code>>
    /\ UNCHANGED <<config_vars, items_list, total_bytes, dir_sizes, walk_stack,
                   loop_vars, rollup_todo, listed, statted, scans, history,
                   skip_vars, run_env, size_mb_arg, size_unit, success, data_lines>>

\* save_results (and the same lines at the end of find_files and
\* find_large_videos): without an output file the table goes to the terminal
\* and the command returns; with one, open(self.output_file, "w")
SaveOpen ==
    /\ pc = "formatted"
    /\ trace' = Append(trace, "save_results")
    /\ IF output_file = ""
       THEN /\ terminal' = Append(terminal, format_table(data_lines, no_size, total_bytes))
            /\ pc' = "done"
            /\ exit_code' = 0
            /\ UNCHANGED <<errors, out_file, out_content>>
       ELSE IF ~ParentExists(output_file)
       THEN \* open raises: except Exception -> error_exit
            /\ AbortWithError
            /\ UNCHANGED <<terminal, out_file, out_content>>
       ELSE \* mode "w" creates or truncates the destination
            /\ out_file' = IF out_file = "old" THEN "clobbered" ELSE "empty"
            /\ out_content' = <<>>
            /\ pc' = "opened"
            /\ UNCHANGED <<terminal, errors, exit_code>>
    /\ UNCHANGED <<config_vars, items_list, total_bytes, dir_sizes, walk_stack,
                   loop_vars, rollup_todo, listed, statted, scans, history,
                   skip_vars, run_env, size_mb_arg, size_unit, success, data_lines>>

\* format_table into the opened file, close, print_success; an exception of
\* the write goes to error_exit
SaveWrite ==
    /\ pc = "opened"
    /\ IF write_fails
       THEN /\ AbortWithError
            /\ UNCHANGED <<out_file, out_content, success>>
       ELSE /\ out_file' = "new"
            /\ out_content' = Append(out_content, format_table(data_lines, no_size, total_bytes))
            /\ success' = success + 1
            /\ pc' = "done"
            /\ exit_code' = 0
            /\ UNCHANGED errors
    /\ UNCHANGED <<config_vars, items_list, total_bytes, dir_sizes, walk_stack,
                   loop_vars, rollup_todo, listed, statted, scans, history,
                   skip_vars, run_env, size_mb_arg, size_unit, terminal,
                   data_lines, trace>>

\* the positions at which a scan or an output write is in progress
InProgress == {"walk", "body", "rollup", "total", "legacy_scan", "opened"}

\* KeyboardInterrupt.  No except clause of the scanners catches it ("except
\* Exception"); click turns it into Abort and exit status 1; videos/cli.py
\* main catches it, prints an error and calls sys.exit(0).
Interrupt ==
    /\ entry # "api"
    /\ pc \in InProgress
    /\ pc' = "interrupted"
    /\ IF entry = "videos_main"
       THEN /\ errors' = errors + 1
            /\ exit_code' = 0
       ELSE /\ exit_code' = 1
            /\ UNCHANGED errors
    /\ UNCHANGED <<config_vars, items_list, total_bytes, dir_sizes, walk_stack,
                   loop_vars, rollup_todo, listed, statted, scans, history,
                   skip_vars, run_env, run_rest>>

(***************************************************************************)
(* files/core.py find_files, videos/core.py find_large_videos               *)
(***************************************************************************)
\* the loop over files of find_files / find_large_videos
RECURSIVE core_files(_, _, _, _, _)
core_files(top, names, threshold, videos_only, acc) ==
    IF names = <<>> THEN acc
    ELSE LET filename == Head(names)
             file_path == join(top, filename)
             next ==
                 IF IsHiddenName(filename) THEN acc
                 ELSE IF videos_only /\ ~core_is_video_file(filename) THEN acc
                 ELSE IF StatFails(file_path)
                 THEN [acc EXCEPT !.statted = Append(@, file_path)]
                 ELSE IF getsize(file_path) >= threshold
                 THEN [acc EXCEPT !.statted = Append(@, file_path),
                                  !.items = Append(@, <<file_path, getsize(file_path)>>)]
                 ELSE [acc EXCEPT !.statted = Append(@, file_path)]
         IN  core_files(top, Tail(names), threshold, videos_only, next)

\* the loop over os.walk of find_files / find_large_videos: only the
\* denylist is applied to the yielded directory
RECURSIVE core_walk(_, _, _, _)
core_walk(stack, threshold, videos_only, acc) ==
    IF stack = <<>> THEN acc
    ELSE LET top == stack[Len(stack)]
             rest == SliceTo(stack, Len(stack) - 1)
             id == abspath(top)
             seen == [acc EXCEPT !.listed = Append(@, top)]
         IN  IF DenylistRule(top)
             THEN core_walk(rest, threshold, videos_only, seen)
             ELSE core_walk(
                      PushDirs(rest, top,
                               SelectSeq(Scandir(SubdirNames(id)), NotHiddenName)),
                      threshold, videos_only,
                      core_files(top, Scandir(FileNames(id)), threshold,
                                 videos_only, seen))

\* the rows find_files / find_large_videos build, and the total they add up
RECURSIVE core_total(_)
core_total(items) ==
    IF items = <<>> THEN 0 ELSE items[1][2] + core_total(Tail(items))

core_rows(items, unit, nosize, videos_only) ==
    LET ordered == IF videos_only
                   THEN StableSort(items, [i \in 1..Len(items) |-> items[i][2]], TRUE)
                   ELSE items
        header == IF videos_only
                  THEN (IF nosize THEN <<"Video Location">>
                        ELSE <<"Video Location", "File Size">>)
                  ELSE (IF nosize THEN <<"File Location">>
                        ELSE <<"File Location", "File Size">>)
    IN  <<header>> \o
        [i \in 1..Len(ordered) |->
            IF nosize THEN <<ordered[i][1]>>
            ELSE <<ordered[i][1], format_size(ordered[i][2], unit)>>]

\* scan_files of files/cli.py and main of videos/cli.py up to the search:
\* both options given, then the size, then the directory
LegacyChecks ==
    /\ pc = "cli"
    /\ IF size_gb # <<>> /\ size_mb # <<>>
       THEN /\ AbortWithError
            /\ UNCHANGED <<size_mb_arg, size_unit>>
       ELSE LET r == legacy_size(size_gb, size_mb)
            IN  /\ size_mb_arg' = <<r.size_mb>>
                /\ size_unit' = r.size_unit
                /\ IF is_dir(search_dir)
                   THEN /\ pc' = "legacy_scan"
                        /\ UNCHANGED <<errors, exit_code>>
                   ELSE AbortWithError
    /\ UNCHANGED <<config_vars, items_list, total_bytes, dir_sizes, walk_stack,
                   loop_vars, rollup_todo, listed, statted, scans, history,
                   skip_vars, run_env, out_file, out_content, terminal, success,
                   data_lines, trace>>

ScanFiles ==
    /\ entry = "files_main"
    /\ LegacyChecks

VideosMain ==
    /\ entry = "videos_main"
    /\ LegacyChecks

\* find_files / find_large_videos: the walk and the rows
FindLegacy ==
    /\ pc = "legacy_scan"
    /\ LET videos_only == entry = "videos_main"
           r == core_walk(<<search_dir>>, threshold_bytes(size_mb_arg[1]), videos_only,
                          [items |-> <<>>, listed |-> <<>>, statted |-> <<>>])
       IN  IF fault_at # 0 /\ Len(r.listed) >= fault_at
           THEN \* the walk raised: except Exception -> print_error, sys.exit(1)
                /\ AbortWithError
                /\ UNCHANGED <<items_list, total_bytes, listed, statted, data_lines>>
           ELSE /\ items_list' = r.items
                /\ total_bytes' = core_total(r.items)
                /\ listed' = r.listed
                /\ statted' = r.statted
                /\ data_lines' = core_rows(r.items, size_unit, no_size, videos_only)
                /\ pc' = "formatted"
                /\ UNCHANGED <<errors, exit_code>>
    /\ UNCHANGED <<config_vars, dir_sizes, walk_stack, loop_vars, rollup_todo,
                   scans, history, skip_vars, run_env, size_mb_arg, size_unit,
                   out_file, out_content, terminal, success, trace>>

\* a command has been invoked with some options on some tree
RunInit ==
    /\ entry \in CliCommands \cup LegacyMains
    /\ mode = (CASE entry \in {"files", "files_main"} -> "files"
                 [] entry = "dirs" -> "dirs"
                 [] OTHER -> "videos")
    /\ search_dir \in RunDirs
    /\ size_gb \in SizeOptions
    /\ size_mb \in SizeOptions
    /\ verbose \in BOOLEAN
    /\ no_size \in BOOLEAN
    /\ output_file \in OutputFiles
    /\ write_fails \in (IF output_file = "out.txt" THEN BOOLEAN ELSE {FALSE})
    /\ out_file \in (IF output_file = "out.txt" THEN {"absent", "old"} ELSE {"absent"})
    /\ fault_at \in {0, 2}
    /\ size_bytes_threshold = 0
    /\ exclude_folders_abs = InitExcludeFoldersAbs
    /\ items_list = <<>>
    /\ total_bytes = 0
    /\ dir_sizes = <<>>
    /\ fsize = [f \in AllFiles |-> IF f \in VaryingFiles THEN MaxSize ELSE FixedSize(f)]
    /\ fails = {}
    /\ rev = FALSE
    /\ pc = "cli"
    /\ walk_stack = <<>>
    /\ root = <<>>
    /\ dirs = <<>>
    /\ files = <<>>
    /\ dir_size = 0
    /\ rollup_todo = <<>>
    /\ exit_code = -1
    /\ listed = <<>>
    /\ statted = <<>>
    /\ scans = 0
    /\ history = <<>>
    /\ skip_arg = <<>>
    /\ skip_result = "none"
    /\ video_arg = <<>>
    /\ video_result = <<>>
    /\ size_mb_arg = <<>>
    /\ size_unit = ""
    /\ out_content = (IF out_file = "old" THEN <<EarlierOutput>> ELSE <<>>)
    /\ terminal = <<>>
    /\ errors = 0
    /\ success = 0
    /\ data_lines = <<>>
    /\ trace = <<>>

RunNext ==
    \/ ValidateDirectory
    \/ ValidateSizeOptions
    \/ Construct
    \/ StartScan
    \/ WalkNext
    \/ ProcessFile
    \/ EndBody
    \/ WalkDone
    \/ RollupStep
    \/ Filter
    \/ Total
    \/ FormatResults
    \/ SaveOpen
    \/ SaveWrite
    \/ ScanFiles
    \/ VideosMain
    \/ FindLegacy
    \/ Interrupt

RunSpec == RunInit /\ [][RunNext]_vars

(***************************************************************************)
(* A command of cli.py left to run: the process is not interrupted and,     *)
(* being sequential, takes its next step as long as it has one.             *)
(***************************************************************************)
TermInit ==
    /\ RunInit
    /\ entry \in CliCommands
    /\ size_gb = <<>>
    /\ no_size = FALSE

TermNext ==
    \/ ValidateDirectory
    \/ ValidateSizeOptions
    \/ Construct
    \/ StartScan
    \/ WalkNext
    \/ ProcessFile
    \/ EndBody
    \/ WalkDone
    \/ RollupStep
    \/ Filter
    \/ Total
    \/ FormatResults
    \/ SaveOpen
    \/ SaveWrite

TermSpec == TermInit /\ [][TermNext]_vars /\ WF_vars(TermNext)

(***************************************************************************)
(* Reference definitions for the properties: computed from the tree and     *)
(* the rules as stated, not from the scanners' data structures.             *)
(***************************************************************************)
IsPrefixSeq(a, b) == Len(a) <= Len(b) /\ SubSeq(b, 1, Len(a)) = a

\* the non-empty components of a path
Components(p) == SelectSeq(split(p), LAMBDA c : c # <<>>)

\* the text after the last separator
FinalComponent(p) ==
    IF \E i \in 1..Len(p) : p[i] = sep
    THEN SubSeq(p, 1 + (CHOOSE i \in 1..Len(p) :
                          p[i] = sep /\ \A j \in (i + 1)..Len(p) : p[j] # sep), Len(p))
    ELSE p

\* d is a directory a or lies below it, by whole components
IsUnder(d, a) == IsPrefixSeq(Components(a), Components(d))
IsProperAncestor(a, d) == IsUnder(d, a) /\ Components(a) # Components(d)

\* an absolute path equals an excluded entry or is nested under one
ComponentExcluded(abs_path) ==
    \E i \in 1..Len(EXCLUDE_FOLDERS) : IsUnder(abs_path, abspath(EXCLUDE_FOLDERS[i]))

\* an entry of exclude_folders_abs is a string prefix of the absolute path
PrefixExcluded(abs_path) ==
    \E i \in 1..Len(exclude_folders_abs) :
        IsPrefixSeq(exclude_folders_abs[i], abs_path)

IsDotName(name) == name # <<>> /\ name[1] = "."

DirectFiles(d) == {join(d, FileNames(d)[i]) : i \in 1..Len(FileNames(d))}
VisibleFiles(d) ==
    {join(d, FileNames(d)[i]) : i \in {k \in 1..Len(FileNames(d)) : ~IsDotName(FileNames(d)[k])}}

\* sub-directories the rules allow to descend into: not hidden, not excluded
OpenSubdirs(d) ==
    {join(d, SubdirNames(d)[i]) :
        i \in {k \in 1..Len(SubdirNames(d)) :
                  /\ ~IsDotName(SubdirNames(d)[k])
                  /\ ~ComponentExcluded(join(d, SubdirNames(d)[k]))}}

RECURSIVE OpenBelow(_)
OpenBelow(d) == {d} \cup UNION {OpenBelow(c) : c \in OpenSubdirs(d)}

\* the directories a walk from search_dir visits under the rules as stated
RuleVisited ==
    LET b == FinalComponent(search_dir)
        skipRoot == \/ IsDotName(b) /\ b \notin INCLUDE_HIDDEN_FOLDERS
                    \/ ComponentExcluded(abspath(search_dir))
    IN  IF skipRoot THEN {} ELSE OpenBelow(abspath(search_dir))

RECURSIVE SumSizes(_)
SumSizes(S) ==
    IF S = {} THEN 0
    ELSE LET f == CHOOSE x \in S : TRUE IN fsize[f] + SumSizes(S \ {f})

\* sum of the sizes of all files under d, recursively, hidden files, hidden
\* directories and excluded subtrees left out (a file that cannot be statted
\* has no size)
recursiveSize(d) ==
    SumSizes(UNION {VisibleFiles(x) : x \in OpenBelow(d)} \ fails)

\* the directories whose loop body this scan() has entered
BodyEntered ==
    {abspath(listed[i]) : i \in {k \in 1..Len(listed) : ~should_skip_path(listed[k])}}

\* the directories DirectoryScanner has stored in dir_sizes
Stored == {abspath(dir_sizes[i][1]) : i \in 1..Len(dir_sizes)}

\* sum of the sizes of the files reachable under d through stored (visited,
\* non-pruned) directories
ReachableSize(d) ==
    SumSizes(UNION {VisibleFiles(x) : x \in {y \in Stored : IsUnder(y, d)}} \ fails)

ItemPaths == {abspath(items_list[i][1]) : i \in 1..Len(items_list)}
ItemSet(items) == {<<abspath(items[i][1]), items[i][2]>> : i \in 1..Len(items)}

RECURSIVE SumSeq(_, _)
SumSeq(items, keep) ==
    IF keep = {} THEN 0
    ELSE LET i == CHOOSE x \in keep : TRUE IN items[i][2] + SumSeq(items, keep \ {i})

FirstScanOver == (pc = "returned" /\ scans = 1) \/ (pc = "exited" /\ scans = 0)
RollupOver == pc = "total" \/ pc = "returned" \/ (pc = "rollup" /\ rollup_todo = <<>>)

(***************************************************************************)
(* C1 as stated: after DirectoryScanner.scan the paths in items_list are    *)
(* exactly the visited directories whose recursiveSize reaches the          *)
(* threshold, and each reported size equals recursiveSize.                  *)
(* Refuted: for search_dir "/" the root is its own dirname and is added     *)
(* into itself.                                                             *)
(***************************************************************************)
C1_DirsResultExact ==
    (mode = "dirs" /\ pc = "returned") =>
        /\ ItemPaths = {d \in RuleVisited : recursiveSize(d) >= size_bytes_threshold}
        /\ \A i \in 1..Len(items_list) :
               items_list[i][2] = recursiveSize(abspath(items_list[i][1]))

(***************************************************************************)
(* C2 as stated: after the rollup pass every entry of dir_sizes, the search *)
(* root included whatever string names it, holds the sum of the sizes of    *)
(* the files reachable under it.                                            *)
(* Refuted: search_dir "/" (root doubled) and "/d/" (children never added). *)
(***************************************************************************)
C2_RollupSums ==
    (mode = "dirs" /\ RollupOver) =>
        \A i \in 1..Len(dir_sizes) :
            dir_sizes[i][2] = ReachableSize(abspath(dir_sizes[i][1]))

(***************************************************************************)
(* C3 as stated: after DirectoryScanner.scan total_bytes is the sum of the  *)
(* sizes of the results that have no proper ancestor among the results.     *)
(* Refuted: for search_dir "/" the test startswith("/" + "/") never holds,  *)
(* so the root's children are counted again.                                *)
(***************************************************************************)
C3_TotalOutermost ==
    (mode = "dirs" /\ pc = "returned") =>
        total_bytes =
            SumSeq(items_list,
                   {i \in 1..Len(items_list) :
                       ~\E j \in 1..Len(items_list) :
                           IsProperAncestor(abspath(items_list[j][1]),
                                            abspath(items_list[i][1]))})

(***************************************************************************)
(* C4 as stated: when FileScanner.scan is over, every entry has a size at   *)
(* least the threshold, no non-hidden file of a visited directory below the *)
(* threshold is listed, and every such file at or above it whose stat       *)
(* succeeds is listed exactly once.                                         *)
(* Refuted: with verbose set, the first file reaching the threshold raises  *)
(* AttributeError (self.MB_TO_BYTES) and the scan exits without it.         *)
(***************************************************************************)
C4_FilesThreshold ==
    (mode = "files" /\ FirstScanOver) =>
        /\ \A i \in 1..Len(items_list) : items_list[i][2] >= size_bytes_threshold
        /\ \A d \in BodyEntered : \A f \in VisibleFiles(d) :
               IF fsize[f] < size_bytes_threshold
               THEN f \notin ItemPaths
               ELSE f \notin fails =>
                       Cardinality({i \in 1..Len(items_list) :
                                       abspath(items_list[i][1]) = f}) = 1

(***************************************************************************)
(* C5 as stated: a second scan() of the same scanner on the unchanged tree  *)
(* yields the same set of (path, size) and the same total_bytes.            *)
(* Refuted: FileScanner and VideoScanner never reset items_list and         *)
(* total_bytes, so the second scan adds to the first.                       *)
(***************************************************************************)
C5_Idempotent ==
    Len(history) >= 2 =>
        /\ ItemSet(history[2].items) = ItemSet(history[1].items)
        /\ history[2].total = history[1].total

(***************************************************************************)
(* C6 as stated: the children of a directory for which should_skip_path is  *)
(* true are never enumerated: it is not listed, none of its files is        *)
(* statted, and nothing below it is listed.                                 *)
(* Refuted: os.walk lists a directory before it yields it, so the entries   *)
(* of a skipped directory have been enumerated when the check runs.         *)
(***************************************************************************)
C6_PrunedNotEnumerated ==
    /\ \A i \in 1..Len(listed) : ~should_skip_path(listed[i])
    /\ \A i \in 1..Len(statted) : ~should_skip_path(dirname(statted[i]))
    /\ \A i, j \in 1..Len(listed) :
           should_skip_path(listed[i]) =>
               ~IsProperAncestor(abspath(listed[i]), abspath(listed[j]))

(***************************************************************************)
(* C7 as stated: a path whose final component is not hidden is skipped if   *)
(* and only if its absolute form equals an excluded entry or is nested      *)
(* under one by whole components.                                           *)
(* Refuted: str.startswith also matches /private2 against /private.         *)
(***************************************************************************)
C7_DenylistByComponents ==
    (skip_result # "none" /\ ~IsDotName(FinalComponent(skip_arg))) =>
        (skip_result = "True" <=> ComponentExcluded(abspath(skip_arg)))

VideoFiles == {F_mkv, F_mp4}

EligibleFiles ==
    {f \in UNION {VisibleFiles(d) : d \in BodyEntered} :
        /\ f \notin fails
        /\ fsize[f] >= size_bytes_threshold
        /\ mode = "videos" => f \in VideoFiles}

WalkJustOver == pc = "rollup" /\ Len(rollup_todo) = Len(dir_sizes)

C10_State ==
    /\ \A i \in 1..Len(items_list) : abspath(items_list[i][1]) \notin fails
    /\ (mode # "dirs" /\ pc = "returned" /\ scans = 1) =>
           ItemSet(items_list) = {<<f, fsize[f]>> : f \in EligibleFiles}
    /\ (mode = "dirs" /\ WalkJustOver) =>
           \A i \in 1..Len(dir_sizes) :
               dir_sizes[i][2] = SumSizes(VisibleFiles(abspath(dir_sizes[i][1])) \ fails)

C10_Step ==
    (/\ Len(statted') = Len(statted) + 1
     /\ abspath(statted'[Len(statted')]) \in fails)
    => /\ pc' = pc
       /\ exit_code' = exit_code
       /\ items_list' = items_list
       /\ total_bytes' = total_bytes
       /\ dir_size' = dir_size
       /\ dir_sizes' = dir_sizes
       /\ files' = Tail(files)
       /\ walk_stack' = walk_stack
       /\ root' = root
       /\ dirs' = dirs

C10_StatErrorsRecoverable == [](C10_State) /\ [][C10_Step]_vars

\* a scan met a failing file and returned with other files reported
C10_Witness ==
    /\ pc = "returned"
    /\ \E i \in 1..Len(statted) : abspath(statted[i]) \in fails
    /\ items_list # <<>>

(***************************************************************************)
(* Reference definitions for the command line                               *)
(***************************************************************************)
InTrace(step) == \E i \in 1..Len(trace) : trace[i] = step
LastStep == IF trace = <<>> THEN "" ELSE trace[Len(trace)]

BothSizesGiven == size_gb # <<>> /\ size_mb # <<>>
NonPositiveSize ==
    \/ size_gb # <<>> /\ size_gb[1] <= 0
    \/ size_mb # <<>> /\ size_mb[1] <= 0
InvalidDirectory == abspath(search_dir) \notin TreeDirs
InvalidArguments == InvalidDirectory \/ BothSizesGiven \/ NonPositiveSize

\* no output has been produced: nothing on the terminal, the destination as
\* it was before the command
NoOutput ==
    /\ terminal = <<>>
    /\ out_file \in {"absent", "old"}
    /\ out_content = (IF out_file = "old" THEN <<EarlierOutput>> ELSE <<>>)

(***************************************************************************)
(* C11: when an exception other than a stat error ends the traversal of a   *)
(* scanner run by a command of cli.py, the step that ends it reports one    *)
(* error (the only one of the run) and sets a non-zero status; neither      *)
(* format_results nor save_results has run or runs afterwards, nothing is   *)
(* rendered and the output file is neither created nor modified.            *)
(***************************************************************************)
C11_Step ==
    /\ pc # "exited"
    /\ (pc \in {"walk", "body", "rollup", "total"} /\ pc' = "exited") =>
           /\ errors = 0
           /\ errors' = 1
           /\ exit_code' # 0
           /\ ~InTrace("format_results")
           /\ ~InTrace("save_results")
           /\ NoOutput
           /\ UNCHANGED <<terminal, out_file, out_content, success, data_lines, trace>>

C11_WalkFatal == [][C11_Step]_vars

\* a scan that had found results was ended by an exception
C11_Witness ==
    /\ entry \in CliCommands
    /\ pc = "exited"
    /\ listed # <<>>
    /\ items_list # <<>>
    /\ errors = 1
    /\ LastStep = "construct"

(***************************************************************************)
(* C12 as stated: when the destination cannot be opened or written,         *)
(* save_results reports one error and exits non-zero, prints no success     *)
(* message, renders nothing on the terminal and leaves an earlier output    *)
(* untouched.                                                               *)
(* Refuted: open(..., "w") has truncated the earlier output when the write  *)
(* fails.                                                                   *)
(***************************************************************************)
C12_SaveFailure ==
    (entry \in CliCommands /\ pc = "exited" /\ LastStep = "save_results") =>
        /\ errors = 1
        /\ exit_code # 0
        /\ success = 0
        /\ terminal = <<>>
        /\ out_file # "clobbered"

(***************************************************************************)
(* C13: in the commands files, dirs and vids of cli.py the directory check  *)
(* and the size check, in this order, are complete before the scanner is    *)
(* constructed; when the directory or the size options are invalid the      *)
(* command never gets past the checks, ends with a non-zero status, and no  *)
(* directory is listed and no file statted; an ended command does nothing.  *)
(***************************************************************************)
C13_State ==
    entry \in CliCommands =>
        /\ InTrace("construct") =>
               SubSeq(trace, 1, 3) =
                   <<"validate_directory", "validate_size_options", "construct">>
        /\ (listed # <<>> \/ statted # <<>> \/ pc \in InProgress) => InTrace("construct")
        /\ InvalidArguments =>
               /\ pc \in {"cli", "dir_ok", "exited"}
               /\ pc = "exited" => exit_code # 0
               /\ listed = <<>>
               /\ statted = <<>>
               /\ ~InTrace("construct")

C13_ValidationFirst == [](C13_State) /\ [][pc \notin {"exited", "interrupted"}]_vars

\* the size check has stopped a command whose directory was valid
C13_Witness ==
    /\ entry \in CliCommands
    /\ pc = "exited"
    /\ ~InvalidDirectory
    /\ LastStep = "validate_size_options"

(***************************************************************************)
(* C14: validate_size_options aborts when both options are given and when   *)
(* the given one is <= 0; it returns (size_gb * 1024, "GB") for GB alone,   *)
(* (size_mb, "MB") for MB alone, (1024, "GB") for neither; what it returns  *)
(* is positive.                                                             *)
(***************************************************************************)
C14_SizeOptions ==
    (entry \in CliCommands /\ InTrace("validate_size_options")) =>
        /\ IF BothSizesGiven \/ NonPositiveSize
           THEN /\ size_mb_arg = <<>>
                /\ pc = "exited"
                /\ exit_code # 0
                /\ LastStep = "validate_size_options"
           ELSE IF size_gb # <<>>
           THEN size_mb_arg = <<size_gb[1] * 1024>> /\ size_unit = "GB"
           ELSE IF size_mb # <<>>
           THEN size_mb_arg = size_mb /\ size_unit = "MB"
           ELSE size_mb_arg = <<Fixed(1024)>> /\ size_unit = "GB"
        /\ size_mb_arg # <<>> => size_mb_arg[1] > 0

\* GB alone was given and converted
C14_Witness ==
    /\ entry \in CliCommands
    /\ size_gb # <<>>
    /\ size_mb = <<>>
    /\ size_mb_arg = <<size_gb[1] * 1024>>
    /\ size_unit = "GB"

(***************************************************************************)
(* C15 as stated: every entry point ends a successful scan with status 0,   *)
(* and on an invalid directory, on both size options and on a non-positive  *)
(* size ends with a non-zero status without scanning.                       *)
(* Refuted: scan_files (files/cli.py) and main (videos/cli.py) do not check *)
(* the sign of the size: they scan and end with status 0.                   *)
(***************************************************************************)
C15_ExitStatus ==
    entry # "api" =>
        /\ pc = "done" => exit_code = 0
        /\ InvalidArguments =>
               /\ listed = <<>>
               /\ statted = <<>>
               /\ pc \notin InProgress \cup {"done"}
               /\ pc = "exited" => exit_code # 0

(***************************************************************************)
(* C16 as stated: in every entry point a KeyboardInterrupt arriving during  *)
(* a scan or an output write ends the process with a non-zero status and    *)
(* without a success report.                                                *)
(* Refuted: main of videos/cli.py catches it and calls sys.exit(0).         *)
(***************************************************************************)
C16_InterruptFails ==
    pc = "interrupted" =>
        /\ exit_code # 0
        /\ success = 0

(***************************************************************************)
(* C17 as stated: when VideoScanner.scan is over, no entry of items_list is *)
(* a file failing is_video_file, the entries are exactly the non-hidden     *)
(* files of the visited directories that pass is_video_file, can be statted *)
(* and have a size of at least the threshold, and total_bytes is their sum. *)
(* Refuted: with verbose set, the first video reaching the threshold raises *)
(* AttributeError (self.MB_TO_BYTES) and the scan exits without it.         *)
(***************************************************************************)
VideoEligible ==
    {f \in UNION {VisibleFiles(d) : d \in BodyEntered} :
        /\ is_video_file(basename(f))
        /\ f \notin fails
        /\ fsize[f] >= size_bytes_threshold}

C17_VideoResult ==
    mode = "videos" =>
        /\ \A i \in 1..Len(items_list) : is_video_file(basename(items_list[i][1]))
        /\ FirstScanOver =>
               /\ ItemSet(items_list) = {<<f, fsize[f]>> : f \in VideoEligible}
               /\ total_bytes = SumSizes(VideoEligible)

(***************************************************************************)
(* C18 as stated: is_video_file(filename) is true if and only if the        *)
(* substring after the final "." of filename, lowercased, is one of the 21  *)
(* listed extensions; the two implementations agree.                        *)
(* Refuted: for a name whose only dots are leading ones (".mp4")            *)
(* os.path.splitext yields no extension and is_video_file is false.         *)
(***************************************************************************)
ListedExtensions ==
    { <<"m", "p", "4">>, <<"m", "k", "v">>, <<"a", "v", "i">>, <<"m", "o", "v">>,
      <<"w", "m", "v">>, <<"f", "l", "v">>, <<"w", "e", "b", "m">>,
      <<"m", "4", "v">>, <<"m", "p", "g">>, <<"m", "p", "e", "g">>,
      <<"3", "g", "p">>, <<"3", "g", "2">>, <<"m", "2", "t", "s">>,
      <<"m", "t", "s">>, <<"t", "s">>, <<"v", "o", "b">>, <<"o", "g", "v">>,
      <<"r", "m">>, <<"r", "m", "v", "b">>, <<"a", "s", "f">>,
      <<"d", "i", "v", "x">> }

\* s with every upper-case letter replaced by its lower-case letter
Folded(s) ==
    [i \in 1..Len(s) |->
        IF \E k \in 1..Len(Uppercase) : Uppercase[k] = s[i]
        THEN Lowercase[CHOOSE k \in 1..Len(Uppercase) : Uppercase[k] = s[i]]
        ELSE s[i]]

HasDot(name) == \E i \in 1..Len(name) : name[i] = "."
FinalDot(name) ==
    CHOOSE i \in 1..Len(name) : name[i] = "." /\ \A j \in (i + 1)..Len(name) : name[j] # "."
AfterFinalDot(name) == SubSeq(name, FinalDot(name) + 1, Len(name))

C18_ExtensionAfterFinalDot ==
    video_result # <<>> =>
        /\ video_result[1] = "True" <=>
               (HasDot(video_arg) /\ Folded(AfterFinalDot(video_arg)) \in ListedExtensions)
        /\ video_result[2] = video_result[1]

(***************************************************************************)
(* C18 amended: is_video_file(filename) is true if and only if filename has *)
(* a final "." that is preceded by some character other than "." and the    *)
(* substring after it, lowercased, is one of the 21 listed extensions (a    *)
(* name with leading dots only, like ".mp4", has no extension); the two     *)
(* implementations agree.                                                   *)
(***************************************************************************)
C18_ExtensionOfSplitext ==
    video_result # <<>> =>
        /\ video_result[1] = "True" <=>
               /\ HasDot(video_arg)
               /\ \E j \in 1..(FinalDot(video_arg) - 1) : video_arg[j] # "."
               /\ Folded(AfterFinalDot(video_arg)) \in ListedExtensions
        /\ video_result[2] = video_result[1]

\* movie.MKV has been classified as a video by both implementations
C18_Witness ==
    /\ video_arg = <<"m", "o", "v", "i", "e", ".", "M", "K", "V">>
    /\ video_result = <<"True", "True">>

(***************************************************************************)
(* C19: in FileScanner and VideoScanner, in every state of every scan,      *)
(* between two iterations of the loops and after the scan, total_bytes is   *)
(* the sum of the sizes of the entries of items_list; on the sample tree    *)
(* with the tests' threshold the files scan returns exactly large.bin 2048, *)
(* dir1/file1.txt 3072 and dir2/file3.txt 4096, total 9216.                 *)
(***************************************************************************)
C19_TotalIsSum ==
    mode \in {"files", "videos"} =>
        /\ total_bytes = SumSeq(items_list, 1..Len(items_list))
        /\ (/\ mode = "files"
            /\ search_dir = D_tmp
            /\ size_bytes_threshold = SampleThreshold
            /\ pc = "returned"
            /\ scans = 1) =>
               /\ ItemSet(items_list) =
                      {<<F_large, 2048>>, <<F_file1, 3072>>, <<F_file3, 4096>>}
               /\ Len(items_list) = 3
               /\ total_bytes = 9216

\* the files scan of the sample tree has returned its three files
C19_Witness ==
    /\ mode = "files"
    /\ search_dir = D_tmp
    /\ pc = "returned"
    /\ scans = 1
    /\ Len(items_list) = 3
    /\ total_bytes = 9216

(***************************************************************************)
(* C20: in every mode no file whose name starts with "." and no file lying  *)
(* under a sub-directory of the search directory whose name starts with "." *)
(* is statted, reported or added to a directory size: such a path is never  *)
(* handed to getsize, is never an entry of items_list, no such directory    *)
(* gets an entry in dir_sizes, and a directory size grows only by the size  *)
(* of the file statted in the same step.                                    *)
(***************************************************************************)
\* the components of path below the search directory (os.walk builds every
\* path it yields by joining names to the search directory as given)
BelowSearchDir(path) ==
    IF startswith(path, search_dir)
    THEN Components(SubSeq(path, Len(search_dir) + 1, Len(path)))
    ELSE Components(abspath(path))

HiddenBelow(path) ==
    LET below == BelowSearchDir(path)
    IN  \E i \in 1..Len(below) : IsDotName(below[i])

C20_State ==
    /\ \A i \in 1..Len(statted) : ~HiddenBelow(statted[i])
    /\ \A i \in 1..Len(items_list) : ~HiddenBelow(items_list[i][1])
    /\ \A i \in 1..Len(dir_sizes) : ~HiddenBelow(dir_sizes[i][1])

C20_Step ==
    (pc = "body" /\ dir_size' > dir_size) =>
        /\ Len(statted') = Len(statted) + 1
        /\ dir_size' = dir_size + fsize[abspath(statted'[Len(statted')])]

DisplayOrder ==
    IF entry = "videos_main"
    THEN StableSort(items_list, [i \in 1..Len(items_list) |-> items_list[i][2]], TRUE)
    ELSE items_list

ExpectedRendering ==
    [rows |-> [i \in 1..Len(DisplayOrder) |->
                  IF no_size THEN <<DisplayOrder[i][1]>>
                  ELSE <<DisplayOrder[i][1], format_size(DisplayOrder[i][2], size_unit)>>],
     summary |-> IF no_size \/ total_bytes <= 0 THEN <<>>
                 ELSE << <<Hundredths(total_bytes, MB_TO_BYTES), "MB">> >>]

C21_OutputSink ==
    /\ output_file # "" => terminal = <<>>
    /\ (pc = "done" /\ output_file # "") =>
           /\ out_file = "new"
           /\ out_content = <<ExpectedRendering>>
    /\ (pc = "done" /\ output_file = "") =>
           /\ terminal = <<ExpectedRendering>>
           /\ out_file = "absent"

\* a command has written a non-empty result set to its output file
C21_Witness ==
    /\ pc = "done"
    /\ output_file = "out.txt"
    /\ out_file = "new"
    /\ Len(items_list) >= 2
    /\ ~no_size
    /\ success = 1

(***************************************************************************)
(* C22 as stated: whenever the rollup loop is about to add a directory d    *)
(* into the entry of its parent, no visited directory below d is still      *)
(* waiting in the loop: the directories come in decreasing depth and d's    *)
(* own rollup is complete before d contributes.                             *)
(* Refuted: "/" counts one separator like its children, is sorted before    *)
(* them, and is added (into itself) while they still wait.                  *)
(***************************************************************************)
C22_RollupOrder ==
    (mode = "dirs" /\ pc = "rollup" /\ rollup_todo # <<>>) =>
        LET d == Head(rollup_todo)
        IN  DictHas(dir_sizes, dirname(d)) =>
                \A i \in 2..Len(rollup_todo) :
                    ~IsProperAncestor(abspath(d), abspath(rollup_todo[i]))

(***************************************************************************)
(* C23 as stated: each visited directory is taken once by the rollup loop,  *)
(* and the step that takes d adds d's size into the entry of d's immediate  *)
(* parent when that parent was visited, and changes no other entry: not     *)
(* d's own, not any other directory's.                                      *)
(* Refuted: dirname("/") is "/", so the root "/" is added into itself; and  *)
(* under the root "/d/" the children's dirname "/d" is not the key "/d/",   *)
(* so they are added nowhere.                                               *)
(***************************************************************************)
\* k names the immediate parent directory of d
IsParentOf(k, d) ==
    LET cd == Components(abspath(d))
    IN  cd # <<>> /\ Components(abspath(k)) = SubSeq(cd, 1, Len(cd) - 1)

C23_Step ==
    (mode = "dirs" /\ pc = "rollup" /\ rollup_todo # <<>>) =>
        LET d == Head(rollup_todo)
        IN  /\ \A i \in 2..Len(rollup_todo) : rollup_todo[i] # d
            /\ Len(dir_sizes') = Len(dir_sizes)
            /\ \A i \in 1..Len(dir_sizes) :
                   /\ dir_sizes'[i][1] = dir_sizes[i][1]
                   /\ dir_sizes'[i][2] =
                          IF IsParentOf(dir_sizes[i][1], d)
                          THEN dir_sizes[i][2] + DictGet(dir_sizes, d)
                          ELSE dir_sizes[i][2]

C23_RollupContribution == [][C23_Step]_vars

(***************************************************************************)
(* C24: in a run of the dirs command the phases follow one another and none *)
(* is entered again: the rollup starts only from the exhausted walk,        *)
(* items_list is filled only when the rollup loop is over, total_bytes is   *)
(* set only after the filter, and format_results and save_results work only *)
(* after scan() has returned.                                               *)
(***************************************************************************)
PhaseOf(p) ==
    CASE p \in {"cli", "dir_ok", "size_ok", "idle"} -> 0
      [] p \in {"walk", "body"} -> 1
      [] p = "rollup" -> 2
      [] p = "total" -> 3
      [] p = "returned" -> 4
      [] p = "formatted" -> 5
      [] p = "opened" -> 6
      [] OTHER -> 7

C24_State ==
    entry = "dirs" =>
        /\ PhaseOf(pc) = 1 => (rollup_todo = <<>> /\ items_list = <<>> /\ total_bytes = 0)
        /\ PhaseOf(pc) = 2 => (walk_stack = <<>> /\ items_list = <<>> /\ total_bytes = 0)
        /\ PhaseOf(pc) = 3 => (walk_stack = <<>> /\ rollup_todo = <<>> /\ total_bytes = 0)
        /\ PhaseOf(pc) < 5 => (data_lines = <<>> /\ NoOutput)
        /\ pc \in {"formatted", "opened", "done"} => scans = 1

C24_Step ==
    entry = "dirs" =>
        /\ PhaseOf(pc') >= PhaseOf(pc)
        /\ (PhaseOf(pc') = 2 /\ PhaseOf(pc) # 2) => (pc = "walk" /\ walk_stack = <<>>)
        /\ items_list' # items_list => (pc = "rollup" /\ rollup_todo = <<>> /\ pc' = "total")
        /\ total_bytes' # total_bytes => (pc = "total" /\ pc' = "returned")
        /\ (pc \in {"walk", "body"} /\ dir_sizes' # dir_sizes) =>
               Len(dir_sizes') = Len(dir_sizes) + 1
        /\ pc \in {"total", "returned", "formatted", "opened"} => dir_sizes' = dir_sizes
        /\ data_lines' # data_lines => pc = "returned"
        /\ (terminal' # terminal \/ out_content' # out_content \/ out_file' # out_file) =>
               pc \in {"formatted", "opened"}

C24_PhaseOrder == [](C24_State) /\ [][C24_Step]_vars

\* a run of the dirs command over several directories has rendered results
C24_Witness ==
    /\ entry = "dirs"
    /\ pc = "done"
    /\ Len(listed) >= 3
    /\ Len(items_list) >= 2
    /\ total_bytes > 0

(***************************************************************************)
(* C25: the loop body of FileScanner, VideoScanner and DirectoryScanner     *)
(* never runs for a directory, the search directory included, whose final   *)
(* name is hidden and not in the include set or which lies under an         *)
(* excluded folder; a scan of such a search directory lists it, stats       *)
(* nothing, stores nothing, does not fail, and leaves items_list empty and  *)
(* total_bytes 0.                                                           *)
(***************************************************************************)
\* the components of the excluded folders
ExcludedComponents == {Components(EXCLUDE_FOLDERS[i]) : i \in 1..Len(EXCLUDE_FOLDERS)}

RuleSkipped(path) ==
    \/ IsDotName(FinalComponent(path)) /\ FinalComponent(path) \notin INCLUDE_HIDDEN_FOLDERS
    \/ LET comps == Components(abspath(path))
       IN  \E e \in ExcludedComponents : IsPrefixSeq(e, comps)

C25_RootRules ==
    /\ root # <<>> => ~RuleSkipped(root)
    /\ RuleSkipped(search_dir) =>
           /\ items_list = <<>>
           /\ total_bytes = 0
           /\ dir_sizes = <<>>
           /\ statted = <<>>
           /\ \A i \in 1..Len(listed) : listed[i] = search_dir
           /\ pc # "exited"
           /\ \A i \in 1..Len(history) :
                  history[i].items = <<>> /\ history[i].total = 0

\* the scan of a search directory the rules exclude has returned, with a
\* threshold every file under it reaches
C25_Witness ==
    /\ RuleSkipped(search_dir)
    /\ pc = "returned"
    /\ size_bytes_threshold = 0
    /\ listed = <<search_dir>>
    /\ Len(history) >= 1

(***************************************************************************)
(* C26 as stated: in the dirs command the rows format_results hands to the  *)
(* renderer are ordered by size descending: of two consecutive rows the     *)
(* first directory's size is at least the second's.                         *)
(* Refuted: the rows keep the order in which the walk stored the            *)
(* directories; DirectoryScanner never sorts items_list by size.            *)
(***************************************************************************)
C26_DirsDescending ==
    (entry = "dirs" /\ pc \in {"formatted", "opened", "done"}) =>
        LET rows == Tail(data_lines)
        IN  \A i \in 1..(Len(rows) - 1) :
                DictGet(items_list, rows[i][1]) >= DictGet(items_list, rows[i + 1][1])

(***************************************************************************)
(* C27 as stated: after DirectoryScanner.scan, for every directory d in     *)
(* items_list every directory from d's parent up to the search directory is *)
(* in items_list too, with a size at least that of d; and when items_list   *)
(* is not empty the search directory is in it and total_bytes is the        *)
(* recursive size of the search directory.                                  *)
(* Refuted: under the root "/d/" the children are not added into the root,  *)
(* and the root "/" is added into itself, so total_bytes is not the root's  *)
(* recursive size.                                                          *)
(***************************************************************************)
C27_UpwardClosed ==
    (mode = "dirs" /\ pc = "returned") =>
        LET top == abspath(search_dir)
        IN  /\ \A i \in 1..Len(items_list) :
                   \A a \in TreeDirs :
                       (IsUnder(a, top) /\ IsProperAncestor(a, abspath(items_list[i][1]))) =>
                           \E j \in 1..Len(items_list) :
                               /\ abspath(items_list[j][1]) = a
                               /\ items_list[j][2] >= items_list[i][2]
            /\ items_list # <<>> =>
                   /\ \E j \in 1..Len(items_list) : abspath(items_list[j][1]) = top
                   /\ total_bytes = recursiveSize(top)

(***************************************************************************)
(* C28 as stated: when the first FileScanner.scan of a scanner is over,     *)
(* items_list is the list find_files collects for the same tree, search     *)
(* directory and threshold, in the same order, and total_bytes is the total *)
(* find_files adds up.                                                      *)
(* Refuted: find_files applies the denylist only, so it scans a search      *)
(* directory with a hidden name which FileScanner skips; and with verbose   *)
(* set FileScanner fails at the first file it would collect.                *)
(***************************************************************************)
C28_FilesEquivalent ==
    (mode = "files" /\ FirstScanOver) =>
        LET r == core_walk(<<search_dir>>, size_bytes_threshold, FALSE,
                           [items |-> <<>>, listed |-> <<>>, statted |-> <<>>])
        IN  /\ items_list = r.items
            /\ total_bytes = core_total(r.items)

(***************************************************************************)
(* C29 as stated: when save_results has ended in its error path, a          *)
(* destination that existed before still holds its earlier content; and     *)
(* when "Results saved" has been printed the destination holds the          *)
(* complete rendering and nothing else.                                     *)
(* Refuted: the destination is truncated when it is opened; a failure of    *)
(* the rendering leaves it empty.                                           *)
(***************************************************************************)
C29_AllOrNothing ==
    entry \in CliCommands =>
        /\ (pc = "exited" /\ LastStep = "save_results" /\ out_file \notin {"absent", "empty"}) =>
               out_content = <<EarlierOutput>>
        /\ success > 0 =>
               out_content = <<format_table(data_lines, no_size, total_bytes)>>

(***************************************************************************)
(* C30: a command of cli.py that is not interrupted ends, either done with  *)
(* its output or exited with an error; no directory is listed twice and no  *)
(* file is statted twice in a scan, and when scan() has returned the        *)
(* directories whose loop body ran are exactly those reached from the       *)
(* search directory through directories that are neither hidden nor         *)
(* skipped.                                                                 *)
(***************************************************************************)
NoRepeats(seq) == \A i, j \in 1..Len(seq) : i # j => abspath(seq[i]) # abspath(seq[j])

NonPruned ==
    LET top == abspath(search_dir)
        open(a) == ~should_skip_path(a) /\ (a # top => ~IsDotName(FinalComponent(a)))
    IN  {d \in TreeDirs :
            /\ IsUnder(d, top)
            /\ \A a \in TreeDirs : (IsUnder(a, top) /\ IsUnder(d, a)) => open(a)}

C30_State ==
    /\ NoRepeats(listed)
    /\ NoRepeats(statted)
    /\ pc \in {"returned", "formatted", "opened", "done"} => BodyEntered = NonPruned

C30_Terminates == [](C30_State) /\ <>(pc \in {"done", "exited"})

\* a scan over several directories and files has ended with its output
C30_Witness ==
    /\ pc = "done"
    /\ Len(listed) >= 3
    /\ Len(statted) >= 4
    /\ Cardinality(NonPruned) >= 3

====
